---- MODULE Spec2Model ----
(***************************************************************************)
(* A model of calmjs.parse.obfuscator: NameGenerator, Scope and Obfuscator. *)
(*                                                                         *)
(* Scope objects live in `heap`, a sequence indexed by the object's        *)
(* identity (1 is Obfuscator.global_scope, 0 stands for None).  Python     *)
(* dicts are sequences of <<key, value>> pairs in insertion order, which   *)
(* is the order dict.items() iterates in.  Names are strings.              *)
(***************************************************************************)
EXTENDS Integers, Sequences, FiniteSets, TLC

\* ---------------------------------------------------------------- bounds
\* Events the traversal may deliver that create something: a scope-enter
\* creates a Scope, a declare or a reference an Identifier node.  (The
\* scope-exit events are those the nesting calls for.)
MaxEvents == 5
\* How many characters of ID_CHARS the generator's charset keeps.
CharsetSize == 2

\* ------------------------------------------------------------- constants
ID_CHARS ==
    << "a", "b", "c", "d", "e", "f", "g", "h", "i", "j", "k", "l", "m",
       "n", "o", "p", "q", "r", "s", "t", "u", "v", "w", "x", "y", "z",
       "A", "B", "C", "D", "E", "F", "G", "H", "I", "J", "K", "L", "M",
       "N", "O", "P", "Q", "R", "S", "T", "U", "V", "W", "X", "Y", "Z",
       "_" >>

\* The charset handed to NameGenerator: a prefix of ID_CHARS, so that names
\* of length two are reached after a few draws.
Charset == SubSeq(ID_CHARS, 1, CharsetSize)

\* The identifier texts (node.value) the traversal may deliver: one that the
\* generator also produces, and one it does not reach.
Symbols == {"a", "x"}

\* The reserved_keywords configurations tried.
ReservedChoices == {{}, {"a"}}

VARIABLES
    heap,               \* the Scope objects, by identity
    nodes,              \* the Identifier nodes delivered so far
    identifiers,        \* Obfuscator.identifiers: node -> Scope
    stack,              \* Obfuscator.stack
    obfuscate_globals,  \* Obfuscator.obfuscate_globals
    reserved_keywords,  \* Obfuscator.reserved_keywords
    pc,                 \* "collect" until finalize() returned, then "render"
    result,             \* what the last Obfuscator.resolve call returned
    last,               \* the last call: its name, the Scope it acted on, and
                        \* the exception it raised ("none" when it returned)
    generator,          \* a NameGenerator iterated on its own (None if none)
    drawn               \* the symbols next(generator) returned so far

\* The NameGenerator object, which no method of Scope or Obfuscator holds.
names == << generator, drawn >>

vars == << heap, nodes, identifiers, stack, obfuscate_globals,
           reserved_keywords, pc, result, last, generator, drawn >>

\* ------------------------------------------------------- python helpers
None == 0

Keys(d) == { d[i][1] : i \in 1..Len(d) }

Values(d) == { d[i][2] : i \in 1..Len(d) }

\* dict.get(k, default)
Get(d, k, default) ==
    IF k \in Keys(d)
    THEN d[CHOOSE i \in 1..Len(d) : d[i][1] = k][2]
    ELSE default

\* d[k] = v: an existing key keeps its place, a new key goes last.
Put(d, k, v) ==
    IF k \in Keys(d)
    THEN [i \in 1..Len(d) |-> IF d[i][1] = k THEN <<k, v>> ELSE d[i]]
    ELSE Append(d, <<k, v>>)

RECURSIVE reversed(_)
reversed(s) ==
    IF s = <<>> THEN <<>> ELSE Append(reversed(Tail(s)), Head(s))

\* sorted(items, key=itemgetter(1)): ascending by value and stable.
RECURSIVE InsertByValue(_, _)
InsertByValue(item, s) ==
    IF s = <<>> THEN <<item>>
    ELSE IF Head(s)[2] < item[2]
         THEN <<Head(s)>> \o InsertByValue(item, Tail(s))
         ELSE <<item>> \o s

RECURSIVE sorted(_)
sorted(items) ==
    IF items = <<>> THEN <<>>
    ELSE InsertByValue(Head(items), sorted(Tail(items)))

\* -------------------------------------------------------- NameGenerator
\* itertools.product(charset, repeat=n), joined: the rightmost position
\* advances fastest.
RECURSIVE product(_, _)
product(charset, n) ==
    IF n = 0 THEN << "" >>
    ELSE LET prev == product(charset, n - 1)
             m == Len(charset)
         IN [j \in 1..(Len(prev) * m) |->
                prev[((j - 1) \div m) + 1] \o charset[((j - 1) % m) + 1]]

\* NameGenerator(skip, charset): the iterator stands before the first
\* candidate of length 1.
NameGenerator(skip, charset) ==
    [skip |-> skip, charset |-> charset, n |-> 1, i |-> 0]

\* A __call__ that forgets the skip set of the generator it derives from.
NameGeneratorCallOwnSkipOnly(self, skip) ==
    NameGenerator(skip, self.charset)

\* __call__: a new generator that skips both sets; self is not advanced.
NameGeneratorCall(self, skip) ==
    NameGenerator(skip \cup self.skip, self.charset)

\* A __next__ that does not look at the skip set.
RECURSIVE NameGeneratorNextUnfiltered(_)
NameGeneratorNextUnfiltered(self) ==
    LET p == product(self.charset, self.n)
    IN IF self.i + 1 > Len(p)
       THEN NameGeneratorNextUnfiltered([self EXCEPT !.n = @ + 1, !.i = 0])
       ELSE [self EXCEPT !.i = @ + 1]

\* __next__: the generator after it yielded its next symbol.
RECURSIVE NameGeneratorNext(_)
NameGeneratorNext(self) ==
    LET p == product(self.charset, self.n)
    IN IF self.i + 1 > Len(p)
       THEN NameGeneratorNext([self EXCEPT !.n = @ + 1, !.i = 0])
       ELSE IF p[self.i + 1] \in self.skip
            THEN NameGeneratorNext([self EXCEPT !.i = @ + 1])
            ELSE [self EXCEPT !.i = @ + 1]

\* The symbol the generator yielded last.
Yielded(self) == product(self.charset, self.n)[self.i]

\* ---------------------------------------------------------------- Scope
\* Scope(node, parent)
NewScope(parent) ==
    [closed |-> FALSE, parent |-> parent, children |-> <<>>,
     referenced_symbols |-> <<>>, local_declared_symbols |-> {},
     remapped_symbols |-> <<>>]

ScopeIds(H) == 1..Len(H)

RECURSIVE declared_symbols(_, _)
declared_symbols(H, s) ==
    H[s].local_declared_symbols \cup
        (IF H[s].parent # None THEN declared_symbols(H, H[s].parent) ELSE {})

global_symbols(H, s) ==
    { k \in Keys(H[s].referenced_symbols) : k \notin declared_symbols(H, s) }

RECURSIVE global_symbols_in_children(_, _)
global_symbols_in_children(H, s) ==
    UNION { global_symbols(H, H[s].children[i]) \cup
            global_symbols_in_children(H, H[s].children[i]) :
            i \in 1..Len(H[s].children) }

\* A leak view that also leaks the names the scope declares itself.
leaked_everything(H, s) == H[s].referenced_symbols

leaked_referenced_symbols(H, s) ==
    SelectSeq(H[s].referenced_symbols,
              LAMBDA kv : kv[1] \notin H[s].local_declared_symbols)

\* A declare that sets the count to 0 whether or not the entry exists.
declare_resetting(H, s, symbol) ==
    [H EXCEPT ![s].local_declared_symbols = @ \cup {symbol},
              ![s].referenced_symbols = Put(@, symbol, 0)]

\* Scope.declare
declare(H, s, symbol) ==
    [H EXCEPT ![s].local_declared_symbols = @ \cup {symbol},
              ![s].referenced_symbols = Put(@, symbol, Get(@, symbol, 0))]

\* Scope.reference
reference(H, s, symbol) ==
    [H EXCEPT ![s].referenced_symbols = Put(@, symbol, Get(@, symbol, 0) + 1)]

\* The inner loop of close: for k, v in items: refs[k] = refs.get(k, 0) + v
RECURSIVE ClaimItems(_, _)
ClaimItems(refs, items) ==
    IF items = <<>> THEN refs
    ELSE ClaimItems(Put(refs, Head(items)[1],
                        Get(refs, Head(items)[1], 0) + Head(items)[2]),
                    Tail(items))

\* The outer loop of close: for child in self.children
RECURSIVE ClaimChildren(_, _, _)
ClaimChildren(H, refs, kids) ==
    IF kids = <<>> THEN refs
    ELSE ClaimChildren(H,
                       ClaimItems(refs, leaked_referenced_symbols(H, Head(kids))),
                       Tail(kids))

\* A close without the check of _closed.
CloseNeverRaises(H, s) == FALSE

\* Scope.close raises ValueError on a closed scope.
CloseRaises(H, s) == H[s].closed

\* A close that hands the scope's own leaks to its parent instead of
\* claiming those of its children.
close_into_parent(H, s) ==
    IF H[s].parent = None THEN [H EXCEPT ![s].closed = TRUE]
    ELSE [H EXCEPT ![H[s].parent].referenced_symbols =
                      ClaimItems(@, leaked_referenced_symbols(H, s)),
                   ![s].closed = TRUE]

\* Scope.close when it does not raise.
close(H, s) ==
    [H EXCEPT ![s].referenced_symbols =
                  ClaimChildren(H, @, H[s].children),
              ![s].closed = TRUE]

\* Scope.close_all: close_all on each child in turn, then close on the scope
\* itself.  The first close that raises ends the call, and what was closed
\* before stays closed.
RECURSIVE close_all(_, _)
RECURSIVE CloseAllChildren(_, _)
close_all(H, s) ==
    LET below == CloseAllChildren(H, H[s].children)
    IN IF below.raised THEN below
       ELSE IF CloseRaises(below.heap, s)
            THEN [heap |-> below.heap, raised |-> TRUE]
            ELSE [heap |-> close(below.heap, s), raised |-> FALSE]

\* for child in self.children: child.close_all()
CloseAllChildren(H, kids) ==
    IF kids = <<>> THEN [heap |-> H, raised |-> FALSE]
    ELSE LET first == close_all(H, Head(kids))
         IN IF first.raised THEN first
            ELSE CloseAllChildren(first.heap, Tail(kids))

\* Scope.nest: the new Scope gets the next identity.
nest(H, s) ==
    Append([H EXCEPT ![s].children = Append(@, Len(H) + 1)], NewScope(s))

\* A skip set that forgot the free names: only the parent's replacements
\* for the names used here are skipped.
RemapSkipNoGlobals(H, s) ==
    LET parent_remapped_symbols ==
            IF H[s].parent # None THEN H[H[s].parent].remapped_symbols
            ELSE <<>>
    IN { parent_remapped_symbols[i][2] :
           i \in { j \in 1..Len(parent_remapped_symbols) :
                     /\ parent_remapped_symbols[j][1]
                           \in Keys(H[s].referenced_symbols)
                     /\ parent_remapped_symbols[j][1]
                           \notin H[s].local_declared_symbols } }

\* The skip set build_remap_symbols hands to name_generator.
RemapSkip(H, s) ==
    LET parent_remapped_symbols ==
            IF H[s].parent # None THEN H[H[s].parent].remapped_symbols
            ELSE <<>>
    IN global_symbols_in_children(H, s)
       \cup { parent_remapped_symbols[i][2] :
                i \in { j \in 1..Len(parent_remapped_symbols) :
                          /\ parent_remapped_symbols[j][1]
                                \in Keys(H[s].referenced_symbols)
                          /\ parent_remapped_symbols[j][1]
                                \notin H[s].local_declared_symbols } }
       \cup global_symbols(H, s)

\* A visiting order that forgot reversed(): least referenced first.
RemapOrderAscending(items) == sorted(items)

\* The order build_remap_symbols visits referenced_symbols.items() in.
RemapOrder(items) == reversed(sorted(items))

\* A loop that forgot to skip the names the scope does not declare.
RECURSIVE RemapLoopAll(_, _, _, _)
RemapLoopAll(remapped, items, replacement, local) ==
    IF items = <<>> THEN remapped
    ELSE LET g == NameGeneratorNext(replacement)
         IN RemapLoopAll(Put(remapped, Head(items)[1], Yielded(g)),
                         Tail(items), g, local)

\* The loop of build_remap_symbols over the ordered items.
RECURSIVE RemapLoop(_, _, _, _)
RemapLoop(remapped, items, replacement, local) ==
    IF items = <<>> THEN remapped
    ELSE IF Head(items)[1] \notin local
         THEN RemapLoop(remapped, Tail(items), replacement, local)
         ELSE LET g == NameGeneratorNext(replacement)
              IN RemapLoop(Put(remapped, Head(items)[1], Yielded(g)),
                           Tail(items), g, local)

\* The part of build_remap_symbols under "if not children_only".
RemapSelf(H, s, name_generator) ==
    LET replacement == NameGeneratorCall(name_generator, RemapSkip(H, s))
    IN [H EXCEPT ![s].remapped_symbols =
            RemapLoop(@, RemapOrder(H[s].referenced_symbols), replacement,
                      H[s].local_declared_symbols)]

RECURSIVE build_remap_symbols(_, _, _, _)
RECURSIVE BuildChildren(_, _, _)
build_remap_symbols(H, s, name_generator, children_only) ==
    BuildChildren(IF ~children_only THEN RemapSelf(H, s, name_generator) ELSE H,
                  H[s].children, name_generator)

\* Children that share one counter: the names an earlier sibling's subtree
\* took are gone for the later ones.
RECURSIVE BuildChildrenShared(_, _, _)
BuildChildrenShared(H, kids, name_generator) ==
    IF kids = <<>> THEN H
    ELSE LET built == build_remap_symbols(H, Head(kids), name_generator, FALSE)
         IN BuildChildrenShared(
                built, Tail(kids),
                NameGeneratorCall(name_generator,
                                  Values(built[Head(kids)].remapped_symbols)))

\* for child in self.children: child.build_remap_symbols(name_generator, False)
BuildChildren(H, kids, name_generator) ==
    IF kids = <<>> THEN H
    ELSE BuildChildren(build_remap_symbols(H, Head(kids), name_generator, FALSE),
                       Tail(kids), name_generator)

\* A resolve that looks in the scope's own table only.
resolve_own_table(H, scope, symbol) ==
    IF scope = None THEN symbol
    ELSE LET r == Get(H[scope].remapped_symbols, symbol, "")
         IN IF r # "" THEN r ELSE symbol

\* Scope.resolve: the while loop, then "result or symbol".
RECURSIVE resolve(_, _, _)
resolve(H, scope, symbol) ==
    IF scope = None THEN symbol
    ELSE IF symbol \in Keys(H[scope].remapped_symbols)
         THEN LET r == Get(H[scope].remapped_symbols, symbol, "")
              IN IF r # "" THEN r ELSE symbol
         ELSE resolve(H, H[scope].parent, symbol)

\* ----------------------------------------------------------- Obfuscator
global_scope == 1

current_scope == stack[Len(stack)]

\* Obfuscator.resolve(node) for a node whose text is `value`.
ObfuscatorResolve(H, ids, node, value) ==
    IF node \notin DOMAIN ids THEN value
    ELSE resolve(H, ids[node], value)

Call(op, scope, raised) == [op |-> op, scope |-> scope, raised |-> raised]

Init ==
    /\ heap = << NewScope(None) >>
    /\ nodes = <<>>
    /\ identifiers = <<>>
    /\ stack = << global_scope >>
    /\ obfuscate_globals \in BOOLEAN
    /\ reserved_keywords \in ReservedChoices
    /\ pc = "collect"
    /\ result = [node |-> 0, value |-> "", text |-> ""]
    /\ last = Call("__init__", global_scope, "none")
    /\ generator = None
    /\ drawn = <<>>

\* A push_scope that nests the new Scope in the global scope, whatever the
\* current scope is.
push_scope_in_global ==
    /\ IF stack = <<>>
       THEN /\ last' = Call("push_scope", None, "IndexError")
            /\ UNCHANGED << heap, stack >>
       ELSE /\ heap' = nest(heap, global_scope)
            /\ stack' = Append(stack, Len(heap) + 1)
            /\ last' = Call("push_scope", Len(heap) + 1, "none")
    /\ UNCHANGED << nodes, identifiers, obfuscate_globals,
                    reserved_keywords, names, pc, result >>

\* Obfuscator.push_scope; current_scope is stack[-1], which raises
\* IndexError on an empty stack.
push_scope ==
    /\ IF stack = <<>>
       THEN /\ last' = Call("push_scope", None, "IndexError")
            /\ UNCHANGED << heap, stack >>
       ELSE /\ heap' = nest(heap, current_scope)
            /\ stack' = Append(stack, Len(heap) + 1)
            /\ last' = Call("push_scope", Len(heap) + 1, "none")
    /\ UNCHANGED << nodes, identifiers, obfuscate_globals,
                    reserved_keywords, names, pc, result >>

\* Obfuscator.pop_scope: stack.pop(), which raises IndexError on an empty
\* stack, then scope.close() on the popped Scope.
pop_scope ==
    /\ IF stack = <<>>
       THEN /\ last' = Call("pop_scope", None, "IndexError")
            /\ UNCHANGED << heap, stack >>
       ELSE /\ stack' = SubSeq(stack, 1, Len(stack) - 1)
            /\ IF CloseRaises(heap, current_scope)
               THEN /\ last' = Call("pop_scope", current_scope, "ValueError")
                    /\ heap' = heap
               ELSE /\ last' = Call("pop_scope", current_scope, "none")
                    /\ heap' = close(heap, current_scope)
    /\ UNCHANGED << nodes, identifiers, obfuscate_globals,
                    reserved_keywords, names, pc, result >>

\* Obfuscator.declare, for a new Identifier node with text `value`
ObfuscatorDeclare(value) ==
    /\ IF stack = <<>>
       THEN /\ nodes' = Append(nodes, [value |-> value, rule |-> "Declare",
                                       scope |-> None])
            /\ last' = Call("declare", None, "IndexError")
            /\ heap' = heap
       ELSE /\ nodes' = Append(nodes, [value |-> value, rule |-> "Declare",
                                       scope |-> current_scope])
            /\ heap' = declare(heap, current_scope, value)
            /\ last' = Call("declare", current_scope, "none")
    /\ UNCHANGED << identifiers, stack, obfuscate_globals,
                    reserved_keywords, names, pc, result >>

\* Obfuscator.reference, for a new Identifier node with text `value`
ObfuscatorReference(value) ==
    /\ IF stack = <<>>
       THEN /\ nodes' = Append(nodes, [value |-> value, rule |-> "Resolve",
                                       scope |-> None])
            /\ last' = Call("reference", None, "IndexError")
            /\ UNCHANGED << heap, identifiers >>
       ELSE /\ nodes' = Append(nodes, [value |-> value, rule |-> "Resolve",
                                       scope |-> current_scope])
            /\ identifiers' =
                  ((Len(nodes) + 1) :> current_scope) @@ identifiers
            /\ heap' = reference(heap, current_scope, value)
            /\ last' = Call("reference", current_scope, "none")
    /\ UNCHANGED << stack, obfuscate_globals,
                    reserved_keywords, names, pc, result >>

\* A finalize that leaves children_only at its default.
children_only_default(globals) == TRUE

\* The children_only argument finalize passes to build_remap_symbols.
children_only(globals) == ~globals

\* Obfuscator.finalize
finalize ==
    /\ IF CloseRaises(heap, global_scope)
       THEN /\ last' = Call("finalize", global_scope, "ValueError")
            /\ UNCHANGED << heap, pc >>
       ELSE /\ last' = Call("finalize", global_scope, "none")
            /\ heap' = build_remap_symbols(
                           close(heap, global_scope), global_scope,
                           NameGenerator(reserved_keywords, Charset),
                           children_only(obfuscate_globals))
            /\ pc' = "render"
    /\ UNCHANGED << nodes, identifiers, stack, obfuscate_globals,
                    reserved_keywords, names, result >>

\* A resolve that records, setdefault-like, the current scope for a node it
\* has no scope for.
ObfuscatorResolveCallRecording(node, value) ==
    /\ result' = [node |-> node, value |-> value,
                  text |-> ObfuscatorResolve(heap, identifiers, node, value)]
    /\ identifiers' =
          IF node \in DOMAIN identifiers THEN identifiers
          ELSE (node :> current_scope) @@ identifiers
    /\ last' = Call("resolve", None, "none")
    /\ UNCHANGED << heap, nodes, stack, obfuscate_globals,
                    reserved_keywords, names, pc >>

\* Obfuscator.resolve, called by the renderer for Identifier `node`
ObfuscatorResolveCall(node, value) ==
    /\ result' = [node |-> node, value |-> value,
                  text |-> ObfuscatorResolve(heap, identifiers, node, value)]
    /\ last' = Call("resolve", None, "none")
    /\ UNCHANGED << heap, nodes, identifiers, stack, obfuscate_globals,
                    reserved_keywords, names, pc >>

\* ------------------------------------------- the well-nested traversal
\* Obfuscator.walk delivers the events in document order with matching
\* PushScope/PopScope; prewalk_hook then calls finalize, and the unparser
\* resolves Identifier nodes afterwards.
Delivered == (Len(heap) - 1) + Len(nodes)

Enter ==
    /\ pc = "collect"
    /\ Delivered < MaxEvents
    /\ push_scope

Exit ==
    /\ pc = "collect"
    /\ Len(stack) > 1
    /\ pop_scope

Declare ==
    /\ pc = "collect"
    /\ Delivered < MaxEvents
    /\ \E value \in Symbols : ObfuscatorDeclare(value)

Reference ==
    /\ pc = "collect"
    /\ Delivered < MaxEvents
    /\ \E value \in Symbols : ObfuscatorReference(value)

Finalize ==
    /\ pc = "collect"
    /\ stack = << global_scope >>
    /\ finalize

Next == Enter \/ Exit \/ Declare \/ Reference \/ Finalize

\* prewalk_hook: the collection pass, then finalize.
Spec == Init /\ [][Next]_vars

\* ------------------------------------------------------- the render pass
\* After prewalk_hook the unparser visits the Identifier nodes again, in
\* document order, and asks Obfuscator.resolve for the text of each.
Resolve ==
    /\ pc = "render"
    /\ result.node < Len(nodes)
    /\ ObfuscatorResolveCall(result.node + 1, nodes[result.node + 1].value)

NextRender == Next \/ Resolve

SpecRender == Init /\ [][NextRender]_vars

\* ------------------------------------------ the handlers called directly
\* Nothing in Obfuscator ties its handlers to a well-nested stream: a set of
\* rule definitions, or a caller, may deliver PopScope without PushScope,
\* end the walk with scopes still open, or call finalize again.
EventPush ==
    /\ pc = "collect"
    /\ Delivered < MaxEvents
    /\ push_scope

EventPop ==
    /\ pc = "collect"
    /\ pop_scope

EventDeclare ==
    /\ pc = "collect"
    /\ Delivered < MaxEvents
    /\ \E value \in Symbols : ObfuscatorDeclare(value)

EventReference ==
    /\ pc = "collect"
    /\ Delivered < MaxEvents
    /\ \E value \in Symbols : ObfuscatorReference(value)

EventFinalize ==
    /\ pc \in {"collect", "render"}
    /\ finalize

NextEvents ==
    EventPush \/ EventPop \/ EventDeclare \/ EventReference \/ EventFinalize

SpecEvents == Init /\ [][NextEvents]_vars

\* ------------------------------------------- the Scope API used directly
\* Callers (the unit tests among them) may drive Scope objects themselves,
\* in any order, closed or not.
InitScope ==
    /\ Init
    /\ ~obfuscate_globals
    /\ reserved_keywords = {}

RECURSIVE SumValues(_)
SumValues(d) == IF d = <<>> THEN 0 ELSE Head(d)[2] + SumValues(Tail(d))

\* The declarations and reference counts held by the scopes of H, which the
\* declare and reference calls made so far account for.
RECURSIVE Load(_)
Load(H) ==
    IF H = <<>> THEN 0
    ELSE Cardinality(Head(H).local_declared_symbols)
         + SumValues(Head(H).referenced_symbols) + Load(Tail(H))

Untouched == UNCHANGED << nodes, identifiers, stack, obfuscate_globals,
                          reserved_keywords, names, pc, result >>

\* What the calls made so far left behind: the Scope objects nested, the
\* scopes closed, the declarations and the counts.
Called ==
    (Len(heap) - 1) + Cardinality({ s \in ScopeIds(heap) : heap[s].closed })
    + Load(heap)

ScopeNest ==
    /\ Called < MaxEvents
    /\ \E s \in ScopeIds(heap) :
          /\ heap' = nest(heap, s)
          /\ last' = Call("Scope.nest", s, "none")
    /\ Untouched

ScopeDeclare ==
    /\ Called < MaxEvents
    /\ \E s \in ScopeIds(heap) : \E symbol \in Symbols :
          /\ heap' = declare(heap, s, symbol)
          /\ last' = Call("Scope.declare", s, "none")
    /\ Untouched

ScopeReference ==
    /\ Called < MaxEvents
    /\ \E s \in ScopeIds(heap) : \E symbol \in Symbols :
          /\ heap' = reference(heap, s, symbol)
          /\ last' = Call("Scope.reference", s, "none")
    /\ Untouched

ScopeClose ==
    /\ \E s \in ScopeIds(heap) :
          IF CloseRaises(heap, s)
          THEN /\ heap' = heap
               /\ last' = Call("Scope.close", s, "ValueError")
          ELSE /\ Called < MaxEvents
               /\ heap' = close(heap, s)
               /\ last' = Call("Scope.close", s, "none")
    /\ Untouched

ScopeCloseAll ==
    /\ \E s \in ScopeIds(heap) :
          LET all == close_all(heap, s)
          IN /\ Called < MaxEvents \/ all.heap = heap
             /\ heap' = all.heap
             /\ last' = Call("Scope.close_all", s,
                             IF all.raised THEN "ValueError" ELSE "none")
    /\ Untouched

NextScope ==
    ScopeNest \/ ScopeDeclare \/ ScopeReference \/ ScopeClose \/ ScopeCloseAll

SpecScope == InitScope /\ [][NextScope]_vars

\* ------------------------------------------- a NameGenerator on its own
\* How many symbols are drawn from one generator.
MaxNames == 4

\* The symbols of at most two characters over the charset.
ShortNames ==
    { product(Charset, 1)[j] : j \in 1..Len(product(Charset, 1)) }
    \cup { product(Charset, 2)[j] : j \in 1..Len(product(Charset, 2)) }

\* NameGenerator(skip, charset) for a skip set of short symbols and a
\* non-empty prefix of the charset.
InitNames ==
    /\ heap = << NewScope(None) >>
    /\ nodes = <<>>
    /\ identifiers = <<>>
    /\ stack = << global_scope >>
    /\ obfuscate_globals = FALSE
    /\ reserved_keywords = {}
    /\ pc = "collect"
    /\ result = [node |-> 0, value |-> "", text |-> ""]
    /\ last = Call("NameGenerator", None, "none")
    /\ \E skip \in SUBSET ShortNames : \E size \in 1..CharsetSize :
          generator = NameGenerator(skip, SubSeq(Charset, 1, size))
    /\ drawn = <<>>

Unnamed == UNCHANGED << heap, nodes, identifiers, stack, obfuscate_globals,
                        reserved_keywords, pc, result >>

\* next(generator)
NamesNext ==
    /\ Len(drawn) < MaxNames
    /\ generator' = NameGeneratorNext(generator)
    /\ drawn' = Append(drawn, Yielded(generator'))
    /\ last' = Call("NameGenerator.__next__", None, "none")
    /\ Unnamed

\* generator(skip): the derived generator takes the place of the one it was
\* derived from, and nothing was drawn from it yet.
NamesCall ==
    /\ \E symbol \in ShortNames :
          generator' = NameGeneratorCall(generator, {symbol})
    /\ drawn' = <<>>
    /\ last' = Call("NameGenerator.__call__", None, "none")
    /\ Unnamed

NextNames == NamesNext \/ NamesCall

SpecNames == InitNames /\ [][NextNames]_vars

\* ============================================================ properties
Rendering == pc = "render"

\* The Identifier nodes each rule delivered.
ResolveNodes == { o \in 1..Len(nodes) : nodes[o].rule = "Resolve" }

DeclareNodes == { o \in 1..Len(nodes) : nodes[o].rule = "Declare" }

\* The scopes from s up to the global scope, nearest first.
RECURSIVE PathUp(_, _)
PathUp(H, s) ==
    IF s = None THEN <<>> ELSE <<s>> \o PathUp(H, H[s].parent)

\* The scope whose declaration a use of `symbol` in scope s denotes: the
\* nearest one on the way up that declares it locally, None for a free name.
BindingScope(H, s, symbol) ==
    LET path == PathUp(H, s)
        hits == { i \in 1..Len(path) :
                    symbol \in H[path[i]].local_declared_symbols }
    IN IF hits = {} THEN None
       ELSE path[CHOOSE i \in hits : \A j \in hits : i <= j]

\* What the renderer prints for Identifier node o.
Rendered(o) == ObfuscatorResolve(heap, identifiers, o, nodes[o].value)

Count(s, symbol) == Get(heap[s].referenced_symbols, symbol, 0)

\* C1: after collection and finalize, two distinct names referenced in a
\* scope (locally or through leaks) never resolve to the same text there.
C1_NoCollision ==
    Rendering =>
        \A s \in ScopeIds(heap) :
            \A n1, n2 \in Keys(heap[s].referenced_symbols) :
                n1 # n2 => resolve(heap, s, n1) # resolve(heap, s, n2)

\* C2: after finalize, the declaring occurrence of a binding, delivered by
\* a declare event alone, renders as the same text as every referencing
\* occurrence of that binding.
C2_DeclarationRendersLikeUses ==
    Rendering =>
        \A d \in DeclareNodes : \A o \in ResolveNodes :
            ( /\ nodes[o].value = nodes[d].value
              /\ BindingScope(heap, nodes[o].scope, nodes[o].value)
                    = nodes[d].scope )
            => Rendered(d) = Rendered(o)

\* The scopes nested in s, at any depth.
RECURSIVE Descendants(_, _)
Descendants(H, s) ==
    UNION { {H[s].children[i]} \cup Descendants(H, H[s].children[i]) :
            i \in 1..Len(H[s].children) }

\* C3 as stated: with obfuscate_globals false, no key of any remap table is
\* a name that some scope of the tree classifies as free.
C3_NoKeyFreeAnywhere ==
    (Rendering /\ ~obfuscate_globals) =>
        \A s \in ScopeIds(heap) : \A t \in ScopeIds(heap) :
            Keys(heap[s].remapped_symbols) \cap global_symbols(heap, t) = {}

\* C3 amended: with obfuscate_globals false, no key of a scope's remap table
\* is a name that this scope or one of its descendants classifies as free.
C3_NoKeyFreeBelow ==
    (Rendering /\ ~obfuscate_globals) =>
        \A s \in ScopeIds(heap) :
            \A t \in {s} \cup Descendants(heap, s) :
                Keys(heap[s].remapped_symbols) \cap global_symbols(heap, t) = {}

\* A scope renamed a declaration of its own while a name is free in a scope
\* nested in it.
C3_Witness ==
    /\ Rendering /\ ~obfuscate_globals
    /\ \E s \in ScopeIds(heap) : \E t \in Descendants(heap, s) :
          /\ heap[s].remapped_symbols # <<>>
          /\ global_symbols(heap, t) # {}

\* C4: after finalize the keys of a scope's remap table are its local
\* declarations, except that the global scope's table is empty unless
\* obfuscate_globals is set; so by default a name declared only at top level
\* renders as its original text everywhere.
C4_RemapKeys ==
    Rendering =>
        /\ \A s \in ScopeIds(heap) :
              /\ Keys(heap[s].remapped_symbols)
                    \subseteq heap[s].local_declared_symbols
              /\ Keys(heap[s].remapped_symbols) =
                    IF s = global_scope /\ ~obfuscate_globals THEN {}
                    ELSE heap[s].local_declared_symbols
        /\ ~obfuscate_globals =>
              \A o \in 1..Len(nodes) :
                  ( /\ nodes[o].value
                          \in heap[global_scope].local_declared_symbols
                    /\ \A s \in ScopeIds(heap) \ {global_scope} :
                          nodes[o].value \notin heap[s].local_declared_symbols )
                  => Rendered(o) = nodes[o].value

\* By default: a nested scope renamed its declaration, and a name declared
\* only at top level is used inside that scope.
C4_Witness ==
    /\ Rendering /\ ~obfuscate_globals
    /\ heap[global_scope].local_declared_symbols # {}
    /\ \E s \in ScopeIds(heap) \ {global_scope} :
          /\ heap[s].remapped_symbols # <<>>
          /\ \E o \in ResolveNodes :
                /\ identifiers[o] = s
                /\ nodes[o].value \in heap[global_scope].local_declared_symbols
                /\ nodes[o].value \notin heap[s].local_declared_symbols

\* The final counts of `symbol` in the scopes of `kids` that do not declare
\* it, added up.
RECURSIVE LeakedCount(_, _)
LeakedCount(kids, symbol) ==
    IF kids = <<>> THEN 0
    ELSE (IF symbol \in heap[Head(kids)].local_declared_symbols THEN 0
          ELSE Count(Head(kids), symbol))
         + LeakedCount(Tail(kids), symbol)

\* C5: after finalize a scope's count of a name is the number of reference
\* events delivered to it plus the final counts of the children that do not
\* declare the name; so the scope that declares a name counts exactly the
\* uses, at any depth, that denote its declaration.
C5_LeakCounts ==
    Rendering =>
        \A s \in ScopeIds(heap) : \A n \in Symbols :
            /\ Count(s, n) =
                  Cardinality({ o \in ResolveNodes :
                                  identifiers[o] = s /\ nodes[o].value = n })
                  + LeakedCount(heap[s].children, n)
            /\ n \in heap[s].local_declared_symbols =>
                  Count(s, n) =
                      Cardinality({ o \in ResolveNodes :
                          /\ nodes[o].value = n
                          /\ BindingScope(heap, identifiers[o], n) = s })

\* A use two scopes below its declaration was counted where it is declared.
C5_Witness ==
    /\ Rendering
    /\ \E o \in ResolveNodes :
          LET s == identifiers[o]
              b == BindingScope(heap, s, nodes[o].value)
          IN /\ b # None
             /\ s # global_scope
             /\ heap[s].parent # b
             /\ s # b
             /\ Count(b, nodes[o].value) >= 1

\* C6: within a scope, a declared symbol with a strictly higher final count
\* never gets a strictly longer replacement than one with a lower count.
C6_FrequencyPriority ==
    Rendering =>
        \A s \in ScopeIds(heap) :
            \A s1, s2 \in Keys(heap[s].remapped_symbols) :
                Count(s, s1) > Count(s, s2) =>
                    Len(Get(heap[s].remapped_symbols, s1, ""))
                        <= Len(Get(heap[s].remapped_symbols, s2, ""))

\* Two declarations of one scope with different counts got replacements of
\* different lengths.
C6_Witness ==
    /\ Rendering
    /\ \E s \in ScopeIds(heap) :
          \E s1, s2 \in Keys(heap[s].remapped_symbols) :
              /\ Count(s, s1) > Count(s, s2)
              /\ Len(Get(heap[s].remapped_symbols, s1, ""))
                    < Len(Get(heap[s].remapped_symbols, s2, ""))

\* C8: after finalize no replacement in any scope's remap table is a
\* reserved keyword.
C8_NoReservedReplacement ==
    Rendering =>
        \A s \in ScopeIds(heap) :
            Values(heap[s].remapped_symbols) \cap reserved_keywords = {}

\* A scope two levels below the global scope drew a replacement while a
\* keyword is reserved.
C8_Witness ==
    /\ Rendering
    /\ reserved_keywords # {}
    /\ \E s \in ScopeIds(heap) :
          /\ heap[s].parent # None
          /\ heap[s].parent # global_scope
          /\ heap[s].remapped_symbols # <<>>

\* The nearest scope from s upwards whose remap table has `symbol`, None if
\* there is none.
NearestEntry(H, s, symbol) ==
    LET path == PathUp(H, s)
        hits == { i \in 1..Len(path) :
                    symbol \in Keys(H[path[i]].remapped_symbols) }
    IN IF hits = {} THEN None
       ELSE path[CHOOSE i \in hits : \A j \in hits : i <= j]

\* C9: Obfuscator.resolve returns the node's own text when no scope was
\* recorded for the node; otherwise the entry for that text in the nearest
\* scope, from the recorded one upwards, that has one, and the text itself
\* when no scope on that path has an entry.
C9_ResolveResult ==
    (Rendering /\ result.node # 0) =>
        LET o == result.node
            v == nodes[o].value
        IN /\ result.value = v
           /\ IF o \notin DOMAIN identifiers THEN result.text = v
              ELSE LET t == NearestEntry(heap, identifiers[o], v)
                   IN IF t = None THEN result.text = v
                      ELSE \E i \in 1..Len(heap[t].remapped_symbols) :
                              /\ heap[t].remapped_symbols[i][1] = v
                              /\ heap[t].remapped_symbols[i][2] = result.text

\* A recorded node was resolved through an ancestor's table to another text.
C9_Witness ==
    /\ Rendering
    /\ result.node \in DOMAIN identifiers
    /\ result.value \notin Keys(heap[identifiers[result.node]].remapped_symbols)
    /\ NearestEntry(heap, identifiers[result.node], result.value) # None
    /\ result.text # result.value

\* C10: Scope.declare and Scope.reference on a closed scope raise, and leave
\* the scope's local_declared_symbols and referenced_symbols as they were.
C10_ClosedScopeRejects ==
    [][ ( /\ last'.op \in {"Scope.declare", "Scope.reference"}
          /\ heap[last'.scope].closed )
        => ( /\ last'.raised # "none"
             /\ heap'[last'.scope].local_declared_symbols
                   = heap[last'.scope].local_declared_symbols
             /\ heap'[last'.scope].referenced_symbols
                   = heap[last'.scope].referenced_symbols ) ]_vars

\* C11: a call that runs Scope.close on an already closed scope (directly,
\* or pop_scope on the popped scope, or finalize on the global scope) raises
\* ValueError and leaves every scope as it was: still closed, no count
\* merged again, no remap table rebuilt; so a second finalize fails.
C11_CloseTwiceFails ==
    [][ ( /\ last'.op \in {"Scope.close", "pop_scope", "finalize"}
          /\ last'.scope # None
          /\ heap[last'.scope].closed )
        => ( /\ last'.raised = "ValueError"
             /\ heap' = heap
             /\ pc' = pc ) ]_vars

\* finalize was called again after it built the tables, with a child of the
\* global scope leaking a count that a second merge would add again.
C11_Witness ==
    /\ pc = "render"
    /\ last.op = "finalize"
    /\ last.raised = "ValueError"
    /\ heap[global_scope].closed
    /\ \E i \in 1..Len(heap[global_scope].children) :
          leaked_referenced_symbols(heap, heap[global_scope].children[i])
              # <<>>

\* C12: a scope-exit delivered while only the global scope is on the stack
\* raises, and neither pops the global scope nor closes it.
C12_StrayExitRejected ==
    [][ ( /\ last'.op = "pop_scope"
          /\ stack = << global_scope >> )
        => ( /\ last'.raised # "none"
             /\ stack' = stack
             /\ heap'[global_scope].closed = heap[global_scope].closed ) ]_vars

\* C13: finalize called while a scope opened by a scope-enter is still on the
\* stack raises; it populates no remap table and does not close the global
\* scope over its open children.
C13_UnbalancedFinalizeRejected ==
    [][ ( /\ last'.op = "finalize"
          /\ Len(stack) > 1 )
        => ( /\ last'.raised # "none"
             /\ pc' = pc
             /\ heap'[global_scope].closed = heap[global_scope].closed
             /\ \A s \in ScopeIds(heap) :
                   heap'[s].remapped_symbols = heap[s].remapped_symbols ) ]_vars

\* Words over an alphabet of m letters, as sequences of letter positions.
Words(m, n) == [1..n -> 1..m]

WordsUpTo(m, n) == UNION { Words(m, k) : k \in 1..n }

\* The string a word spells over the alphabet A.
RECURSIVE Spell(_, _, _)
Spell(A, w, k) == IF k = 0 THEN "" ELSE Spell(A, w, k - 1) \o A[w[k]]

Spelled(A, w) == Spell(A, w, Len(w))

\* Shortlex: shorter words first, words of one length in alphabet order.
ShortlexLess(u, v) ==
    \/ Len(u) < Len(v)
    \/ /\ Len(u) = Len(v)
       /\ \E i \in 1..Len(u) :
             /\ u[i] < v[i]
             /\ \A j \in 1..(i - 1) : u[j] = v[j]

\* The place of word w in the shortlex enumeration over A without the
\* members of X.
ShortlexPlace(A, X, w) ==
    1 + Cardinality({ u \in WordsUpTo(Len(A), Len(w)) :
                        /\ Spelled(A, u) \notin X
                        /\ ShortlexLess(u, w) })

\* Symbol `name` is the k-th of the shortlex enumeration over A without X.
IsShortlexKth(A, X, name, k) ==
    /\ name \notin X
    /\ \E w \in Words(Len(A), Len(name)) :
          /\ Spelled(A, w) = name
          /\ ShortlexPlace(A, X, w) = k

\* C14: the k-th symbol a NameGenerator over charset A with skip set X
\* yields is the k-th element of the shortlex enumeration of the non-empty
\* strings over A without the members of X; it yields no member of X, no
\* symbol twice, and the next symbol always exists.
C14_ShortlexEnumeration ==
    LET A == generator.charset
        X == generator.skip
        following == Yielded(NameGeneratorNext(generator))
    IN /\ \A k \in 1..Len(drawn) : IsShortlexKth(A, X, drawn[k], k)
       /\ \A k \in 1..Len(drawn) : drawn[k] \notin X
       /\ \A j, k \in 1..Len(drawn) : j # k => drawn[j] # drawn[k]
       /\ IsShortlexKth(A, X, following, Len(drawn) + 1)
       /\ \A k \in 1..Len(drawn) : drawn[k] # following

\* A generator that skips a two-character symbol, among others, was drawn
\* from until it moved on to longer symbols.
C14_Witness ==
    /\ Len(generator.charset) >= 2
    /\ Len(drawn) = MaxNames
    /\ Len(drawn[1]) < Len(drawn[MaxNames])
    /\ \E x \in generator.skip : Len(x) = 2
    /\ \E x \in generator.skip : Len(x) = 1

\* C15 as stated: right after a scope-exit closed scope C, the count of
\* every name C leaks has grown, in C's parent, by C's count of it.
C15_LeaksAtChildClose ==
    [][ ( /\ last'.op = "pop_scope"
          /\ last'.raised = "none"
          /\ heap[last'.scope].parent # None )
        => LET C == last'.scope
               P == heap[C].parent
           IN \A n \in Keys(leaked_referenced_symbols(heap', C)) :
                 Get(heap'[P].referenced_symbols, n, 0) =
                     Get(heap[P].referenced_symbols, n, 0)
                     + Get(heap'[C].referenced_symbols, n, 0) ]_vars

\* C15 amended: leaks are propagated at the moment the parent is closed.  A
\* scope-exit that closes C leaves the counts of C's parent as they were;
\* the step that closes a scope P adds to P's count of every name the
\* count of each child of P that references the name without declaring it.
C15_LeaksAtParentClose ==
    [][ /\ ( /\ last'.op = "pop_scope"
             /\ last'.raised = "none"
             /\ heap[last'.scope].parent # None )
           => heap'[heap[last'.scope].parent].referenced_symbols
                 = heap[heap[last'.scope].parent].referenced_symbols
        /\ \A P \in ScopeIds(heap) :
              (~heap[P].closed /\ heap'[P].closed) =>
                  \A n \in Symbols :
                      Get(heap'[P].referenced_symbols, n, 0) =
                          Count(P, n) + LeakedCount(heap[P].children, n) ]_vars

\* A scope-exit just closed a scope that has a parent and a child, and the
\* child leaks a name it referenced.
C15_Witness ==
    /\ last.op = "pop_scope"
    /\ last.raised = "none"
    /\ heap[last.scope].closed
    /\ heap[last.scope].parent # None
    /\ \E i \in 1..Len(heap[last.scope].children) :
          \E n \in Keys(leaked_referenced_symbols(
                            heap, heap[last.scope].children[i])) :
              Count(heap[last.scope].children[i], n) >= 1

\* C16: after finalize no replacement in a scope's remap table is a name
\* that is free (referenced, and declared neither there nor in an ancestor)
\* in that scope or in a scope nested in it at any depth.
C16_NoFreeNameAsReplacement ==
    Rendering =>
        \A s \in ScopeIds(heap) :
            \A t \in {s} \cup Descendants(heap, s) :
                Values(heap[s].remapped_symbols)
                    \cap global_symbols(heap, t) = {}

\* A scope drew a replacement past a generated name that is free two levels
\* below it.
C16_Witness ==
    /\ Rendering
    /\ \E s \in ScopeIds(heap) :
          /\ heap[s].remapped_symbols # <<>>
          /\ \E t \in Descendants(heap, s) :
                /\ heap[t].parent # s
                /\ "a" \in global_symbols(heap, t)

\* The names a scope's remap step may not use: those the base generator
\* skips and those build_remap_symbols adds for the scope.
Exclusions(H, s) == reserved_keywords \cup RemapSkip(H, s)

\* C17: the replacements in a scope's remap table are exactly the first
\* |local_declared_symbols| names of the shortlex enumeration over the
\* charset that are outside the scope's exclusion set (the base generator's
\* skip set united with the scope's own), whatever other scopes drew.
C17_PerScopeEnumeration ==
    Rendering =>
        \A s \in ScopeIds(heap) :
            (s # global_scope \/ obfuscate_globals) =>
                LET n == Cardinality(heap[s].local_declared_symbols)
                    used == Values(heap[s].remapped_symbols)
                IN /\ Len(heap[s].remapped_symbols) = n
                   /\ Cardinality(used) = n
                   /\ \A v \in used : \E k \in 1..n :
                         IsShortlexKth(Charset, Exclusions(heap, s), v, k)

\* Two scopes nested in the same scope drew the same replacement, and a
\* scope with a name to avoid drew past it.
C17_Witness ==
    /\ Rendering
    /\ \E s1, s2 \in ScopeIds(heap) :
          /\ s1 # s2
          /\ heap[s1].parent = heap[s2].parent
          /\ Values(heap[s1].remapped_symbols)
                \cap Values(heap[s2].remapped_symbols) # {}
    /\ \E s \in ScopeIds(heap) :
          /\ heap[s].remapped_symbols # <<>>
          /\ "a" \in Exclusions(heap, s)

\* C18: no scope becomes closed while one of its children is open: after
\* any step that closes a scope, all the children of that scope are closed.
C18_BottomUpClosing ==
    [][ \A s \in ScopeIds(heap) :
            (~heap[s].closed /\ heap'[s].closed) =>
                \A i \in 1..Len(heap'[s].children) :
                    heap'[heap'[s].children[i]].closed ]_vars

\* Every declared symbol of every scope has an entry in referenced_symbols.
DeclaredAreCounted ==
    \A s \in ScopeIds(heap) :
        heap[s].local_declared_symbols
            \subseteq Keys(heap[s].referenced_symbols)

\* A declare call that returned left every count of its scope as it was,
\* an absent entry counting as 0, and added no key but the declared symbol.
DeclareKeepsCounts ==
    ( /\ last'.op \in {"Scope.declare", "declare"}
      /\ last'.raised = "none" )
    => LET s == last'.scope
       IN /\ \A n \in Symbols :
                Get(heap'[s].referenced_symbols, n, 0) = Count(s, n)
          /\ Keys(heap'[s].referenced_symbols) =
                Keys(heap[s].referenced_symbols)
                \cup (heap'[s].local_declared_symbols
                        \ heap[s].local_declared_symbols)

\* C19: in every reachable state each scope's local_declared_symbols is a
\* subset of the keys of its referenced_symbols, and declare creates the
\* entry with count 0 only when it is absent: it never changes a count.
C19_DeclareEnsuresEntry ==
    []DeclaredAreCounted /\ [][DeclareKeepsCounts]_vars

\* The last call declared the only declared symbol of its scope, which had
\* been referenced before.
C19_Witness ==
    /\ last.op = "Scope.declare"
    /\ \E n \in Symbols :
          /\ heap[last.scope].local_declared_symbols = {n}
          /\ Count(last.scope, n) >= 2

\* C20: an Obfuscator.resolve call in the render pass leaves every scope
\* (its referenced_symbols, local_declared_symbols, remapped_symbols,
\* closed flag and children), the identifiers table and the stack unchanged.
C20_RenderReadOnly ==
    [][ last'.op = "resolve"
        => ( /\ \A s \in ScopeIds(heap) :
                   /\ heap'[s].referenced_symbols = heap[s].referenced_symbols
                   /\ heap'[s].local_declared_symbols
                         = heap[s].local_declared_symbols
                   /\ heap'[s].remapped_symbols = heap[s].remapped_symbols
                   /\ heap'[s].closed = heap[s].closed
                   /\ heap'[s].children = heap[s].children
             /\ Len(heap') = Len(heap)
             /\ identifiers' = identifiers
             /\ stack' = stack ) ]_vars

\* The renderer resolved every node: some recorded by a reference event,
\* some delivered by a declare event and never recorded.
C20_Witness ==
    /\ Rendering
    /\ last.op = "resolve"
    /\ result.node = Len(nodes)
    /\ ResolveNodes # {}
    /\ DeclareNodes # {}
    /\ \E s \in ScopeIds(heap) : heap[s].remapped_symbols # <<>>

\* Before finalize: the stack is not empty, the global scope is at its
\* bottom, every other element is a child of the element below it, and the
\* scopes on the stack are exactly the scopes that are not closed.
StackDiscipline ==
    pc = "collect" =>
        /\ stack # <<>>
        /\ stack[1] = global_scope
        /\ \A i \in 2..Len(stack) :
              /\ heap[stack[i]].parent = stack[i - 1]
              /\ \E j \in 1..Len(heap[stack[i - 1]].children) :
                    heap[stack[i - 1]].children[j] = stack[i]
        /\ { stack[i] : i \in 1..Len(stack) }
              = { s \in ScopeIds(heap) : ~heap[s].closed }

\* A declare or reference event changes no Scope but the one on top of the
\* stack, creates none, and leaves the stack as it was.
OnlyTopMutated ==
    last'.op \in {"declare", "reference"}
    => /\ stack' = stack
       /\ Len(heap') = Len(heap)
       /\ last'.scope = stack[Len(stack)]
       /\ \A s \in ScopeIds(heap) :
             s # stack[Len(stack)] => heap'[s] = heap[s]

\* C21: over a well-nested event stream, in every state before finalize
\* the stack is non-empty with the global scope at the bottom, each element
\* above is a child of the one below, the scopes on the stack are exactly
\* the open scopes, and declare and reference events mutate only the scope
\* on top of the stack.
C21_StackDiscipline ==
    []StackDiscipline /\ [][OnlyTopMutated]_vars

\* A declare or reference event reached a scope two levels below the global
\* scope after a sibling of it had been closed.
C21_Witness ==
    /\ pc = "collect"
    /\ last.op \in {"declare", "reference"}
    /\ Len(stack) = 3
    /\ last.scope = stack[3]
    /\ heap[stack[3]].referenced_symbols # <<>>
    /\ \E s \in ScopeIds(heap) : heap[s].closed /\ heap[s].parent = stack[2]

====
